---- MODULE Spec2Model ----
(***************************************************************************)
(* Musify playlist manager: the Tk front end music_playlist_gui_c.py and   *)
(* the song library engine it drives through ctypes (libplaylist.so).      *)
(*                                                                         *)
(* The front end is translated from src/music_playlist_gui_c.py.  The      *)
(* engine's C source is not part of the source tree; its operations        *)
(* (initSystem, add_song, search_song, play_song, most_played, save_songs, *)
(* load_songs) are modelled from spec.md sections 3, 4.1 and 6.            *)
(*                                                                         *)
(* Text is a sequence of one-character strings; what crosses the ctypes    *)
(* boundary and what is stored in files is a sequence of bytes (0..255).   *)
(***************************************************************************)
EXTENDS Integers, Sequences, FiniteSets, TLC

VARIABLES
    lib,              \* engine: the Library, a sequence of [name, play_count]
    fs,               \* file system: library file path -> bytes, or Absent
    users,            \* users: username -> record, or NoUser (the dict `users`)
    users_file,       \* content of users_db.json (Absent when it does not exist)
    current_user,     \* current_user (None when nobody is logged in)
    current_playlist, \* current_playlist
    listbox,          \* rows of the Listbox widget
    entry_song,       \* text of the Entry widget
    lbl_most,         \* what lbl_most shows after "Most Played: "
    dialog,           \* the messagebox the last handler showed
    handler,          \* the handler that ran last
    calls,            \* the engine calls the last handler made, in order
    path,             \* the path the last file dialog returned
    adds              \* history: whether load_songs was called since
                      \* initSystem and, if not, the names passed to add_song

vars == <<lib, fs, users, users_file, current_user, current_playlist, listbox,
          entry_song, lbl_most, dialog, handler, calls, path, adds>>

----------------------------------------------------------------------------
(* Bounds *)

\* largest play_count the model drives an entry to
MaxPlays == 2
\* longest per-user playlist
MaxPlaylist == 2

----------------------------------------------------------------------------
(* Values *)

None == "None"

\* a file: present with its bytes, or absent
File(b) == [exists |-> TRUE, data |-> b]
Absent == [exists |-> FALSE, data |-> <<>>]

\* a char* result: a pointer to bytes, or NULL
Ptr(b) == [null |-> FALSE, bytes |-> b]
NULL == [null |-> TRUE, bytes |-> <<>>]

\* a value of the dict `users`: a record {"pwd_hash": h, "playlist": pl}, a
\* record without the "playlist" key, or no entry for the username
UserRec(h, pl) == [exists |-> TRUE, pwd_hash |-> h, has_playlist |-> TRUE, playlist |-> pl]
UserRecNoPlaylist(h) == [exists |-> TRUE, pwd_hash |-> h, has_playlist |-> FALSE, playlist |-> <<>>]
NoUser == [exists |-> FALSE, pwd_hash |-> <<>>, has_playlist |-> FALSE, playlist |-> <<>>]

\* the line terminator "\n" as bytes
Newline == <<10>>

\* the outcome of bytes.decode: the text, or UnicodeDecodeError raised
Decoded(t) == [ok |-> TRUE, text |-> t]
DecodeError == [ok |-> FALSE, text |-> <<>>]

\* what the user can have typed into entry_song
EntryTexts ==
    { <<>>, <<" ">>, <<" ", "a", " ">>, <<"e'">> }

\* names the claims probe the library with
ProbeNames ==
    { <<"a">>, <<"A">>, <<"e'">>, <<"a", "A">>, <<" ", "a", " ">> }

\* the paths the file dialogs can return ("" = dialog cancelled)
LibPaths == { "initial_songs.txt", "lib.txt" }
DialogPaths == LibPaths \cup { "" }

Usernames == { "u", "v" }
Passwords == { "p", "q" }
\* what simpledialog.askstring can return: a string, "" or None
AskUser == Usernames \cup { "", None }
AskPwd == Passwords \cup { "", None }
\* the passwords users sign up with
SignupPwd == { "p", "", None }

----------------------------------------------------------------------------
(* Text: str.strip, str.encode("utf-8"), bytes.decode("utf-8") *)

\* str.strip() with no argument removes leading and trailing whitespace
IsSpace(c) == c \in { " ", "\t", "\n", "\r" }

RECURSIVE LStrip(_)
LStrip(s) ==
    IF s /= <<>> /\ IsSpace(Head(s)) THEN LStrip(Tail(s)) ELSE s

RECURSIVE RStrip(_)
RStrip(s) ==
    IF s /= <<>> /\ IsSpace(s[Len(s)])
        THEN RStrip(SubSeq(s, 1, Len(s) - 1))
        ELSE s

\* (variant: str.lstrip)
strip_left(s) == LStrip(s)

strip(s) == RStrip(LStrip(s))

\* UTF-8 of one character: ASCII is one byte, U+00E9 (written e') is two
CharBytes(c) ==
    CASE c = "a" -> <<97>>
      [] c = "A" -> <<65>>
      [] c = " " -> <<32>>
      [] c = "-" -> <<45>>
      [] c = "e'" -> <<195, 169>>

RECURSIVE Utf8Encode(_)
Utf8Encode(s) ==
    IF s = <<>> THEN <<>> ELSE CharBytes(Head(s)) \o Utf8Encode(Tail(s))

Chars == { "a", "A", " ", "-", "e'" }

\* bytes.decode("utf-8"): the text, or DecodeError when some prefix of what
\* is left is the encoding of no character
RECURSIVE Utf8Decode(_)
Utf8Decode(b) ==
    IF b = <<>> THEN Decoded(<<>>)
    ELSE LET fits == { c \in Chars :
                        /\ Len(CharBytes(c)) <= Len(b)
                        /\ SubSeq(b, 1, Len(CharBytes(c))) = CharBytes(c) }
         IN  IF fits = {} THEN DecodeError
             ELSE LET c == CHOOSE x \in fits : TRUE
                      rest == Utf8Decode(SubSeq(b, Len(CharBytes(c)) + 1, Len(b)))
                  IN  IF rest.ok THEN Decoded(<<c>> \o rest.text) ELSE DecodeError

----------------------------------------------------------------------------
(* Library engine (libplaylist.so), modelled from spec.md 3, 4.1, 6 *)

\* initSystem(): the empty library
initSystem == <<>>

HasName(L, b) == \E i \in 1..Len(L) : L[i].name = b

\* (variant: add appends without looking the name up)
add_song_appending(L, b) ==
    IF b = <<>> THEN L ELSE Append(L, [name |-> b, play_count |-> 0])

\* add(name): no effect when the name exists (or is empty); otherwise a new
\* entry with play_count 0 is appended
add_song(L, b) ==
    IF b = <<>> \/ HasName(L, b)
        THEN L
        ELSE Append(L, [name |-> b, play_count |-> 0])

\* search(name): 1 iff an entry with exactly these bytes exists
search_song(L, b) == IF HasName(L, b) THEN 1 ELSE 0

\* play(name): the matching entry's play_count + 1; no-op without a match
play_song(L, b) ==
    [i \in 1..Len(L) |->
        IF L[i].name = b
            THEN [L[i] EXCEPT !.play_count = @ + 1]
            ELSE L[i]]

\* scan in insertion order keeping the first entry with the greatest count
RECURSIVE BestIndex(_, _, _)
BestIndex(L, i, best) ==
    IF i > Len(L) THEN best
    ELSE BestIndex(L, i + 1,
                   IF L[i].play_count > L[best].play_count THEN i ELSE best)

\* most_played(): NULL for the empty library, else the winner's name
most_played(L) ==
    IF L = <<>> THEN NULL ELSE Ptr(L[BestIndex(L, 2, 1)].name)

\* the file format: one "<song name>\n" per entry, in insertion order
RECURSIVE Serialize(_)
Serialize(L) ==
    IF L = <<>> THEN <<>> ELSE Head(L).name \o Newline \o Serialize(Tail(L))

\* save(path): (over)writes the file with the serialized library
save_songs(L, F, p) == [F EXCEPT ![p] = File(Serialize(L))]

\* the lines of a file; the last line's terminator is optional
RECURSIVE SplitLines(_, _)
SplitLines(b, cur) ==
    IF b = <<>> THEN (IF cur = <<>> THEN <<>> ELSE <<cur>>)
    ELSE IF <<Head(b)>> = Newline
        THEN <<cur>> \o SplitLines(Tail(b), <<>>)
        ELSE SplitLines(Tail(b), Append(cur, Head(b)))

RECURSIVE AddLines(_, _)
AddLines(L, lines) ==
    IF lines = <<>> THEN L ELSE AddLines(add_song(L, Head(lines)), Tail(lines))

\* load(path): a missing file fails and leaves the library alone; otherwise
\* the library is replaced by the file's entries, each line added in file
\* order with play_count 0 (blank lines skipped, the Library invariant kept)
load_songs(L, F, p) ==
    IF ~F[p].exists THEN L
    ELSE AddLines(initSystem, SplitLines(F[p].data, <<>>))

\* the engine's outcome of load(path)
load_songs_status(F, p) == IF F[p].exists THEN "ok" ELSE "NotFoundError"

----------------------------------------------------------------------------
(* ctypes wrappers *)

\* (variant: the wrapper calls lib.play_song)
c_add_song_calls_play(L, name) == play_song(L, Utf8Encode(name))

c_add_song(L, name) == add_song(L, Utf8Encode(name))

\* (variant: the wrapper trims the name it looks up)
c_search_song_trimming(L, name) == search_song(L, Utf8Encode(strip(name))) = 1

c_search_song(L, name) == search_song(L, Utf8Encode(name)) = 1

\* (variant: the wrapper adds the song before playing it)
c_play_song_adding(L, name) ==
    play_song(add_song(L, Utf8Encode(name)), Utf8Encode(name))

c_play_song(L, name) == play_song(L, Utf8Encode(name))

\* (variant: no result is reported as the label's placeholder "-")
c_most_played_dash(L) ==
    LET res == most_played(L)
    IN  IF res.null \/ res.bytes = <<>> THEN <<"-">>
        ELSE IF Utf8Decode(res.bytes).ok THEN Utf8Decode(res.bytes).text
        ELSE <<"-">>

\* a NULL or empty result is "", and so is a result that does not decode
c_most_played(L) ==
    LET res == most_played(L)
    IN  IF res.null \/ res.bytes = <<>> THEN <<>>
        ELSE IF Utf8Decode(res.bytes).ok THEN Utf8Decode(res.bytes).text
        ELSE <<>>

\* (variant: the wrapper returns without calling lib.save_songs)
c_save_songs_elsewhere(L, F, p) == F

c_save_songs(L, F, p) == save_songs(L, F, p)

\* (variant: the wrapper calls lib.search_song, which loads nothing)
c_load_songs_calls_search(L, F, p) == L

c_load_songs(L, F, p) == load_songs(L, F, p)

\* lib.load_songs.restype = None and the wrapper returns nothing: whatever
\* the engine's outcome st, the caller gets None and no exception
c_load_songs_result(st) == None

----------------------------------------------------------------------------
(* User store *)

NoUsers == [u \in Usernames |-> NoUser]

\* users_db.json: json.dump writes the dict, json.load reads the same dict
\* back (string keys, string and list-of-string values)
UsersFile(data) == [exists |-> TRUE, data |-> data]
NoUsersFile == [exists |-> FALSE, data |-> NoUsers]

load_users(f) == IF f.exists THEN f.data ELSE NoUsers

save_users(data) == UsersFile(data)

\* sha256(pwd).hexdigest(): distinct passwords of the model hash differently
hash_pass(pwd) == <<"sha256", pwd>>

\* (variant: login starts from an empty playlist)
get_playlist_empty(rec) == <<>>

\* users[uname].get("playlist", [])
get_playlist(rec) == IF rec.has_playlist THEN rec.playlist ELSE <<>>

\* a falsy askstring result: None (cancelled) or ""
Falsy(x) == x = None \/ x = ""

----------------------------------------------------------------------------
(* Widgets *)

\* refresh_playlist(): one row "<i+1>. <s>" per playlist element
refresh_playlist(pl) == [i \in 1..Len(pl) |-> <<i, pl[i]>>]

NoDialog == [kind |-> "none", title |-> "", msg |-> ""]
showerror(title, msg) == [kind |-> "error", title |-> title, msg |-> msg]
showinfo(title, msg) == [kind |-> "info", title |-> title, msg |-> msg]

\* c_most_played() or '-'
most_label(L) == IF c_most_played(L) = <<>> THEN <<"-">> ELSE c_most_played(L)

Call(fn, arg) == [fn |-> fn, arg |-> arg]

----------------------------------------------------------------------------
(* Start of the program: module level code up to root.mainloop() *)

\* the contents initial_songs.txt can have when the program starts: none,
\* empty, a name on two lines, a blank line with an unterminated last line,
\* and a line that is not UTF-8
InitialSongs ==
    { Absent,
      File(<<>>),
      File(<<97, 10, 97, 10>>),
      File(<<195, 169, 10, 10, 97>>),
      File(<<255, 10>>) }

\* the contents users_db.json can have when the program starts: none, one
\* user with a playlist, or that user and one whose record has no "playlist"
\* key
OneUser ==
    UsersFile([NoUsers EXCEPT !["u"] = UserRec(hash_pass("p"), << <<"a">> >>)])

TwoUsers ==
    UsersFile([NoUsers EXCEPT !["u"] = UserRec(hash_pass("p"), << <<"a">> >>),
                              !["v"] = UserRecNoPlaylist(hash_pass("p"))])

InitialUsers == { NoUsersFile, OneUser, TwoUsers }

\* the startup load of initial_songs.txt, done only when the file exists
startup_library(F) ==
    IF F["initial_songs.txt"].exists
        THEN c_load_songs(initSystem, F, "initial_songs.txt")
        ELSE initSystem

Startup(songs, accounts) ==
    /\ fs \in { [p \in LibPaths |-> IF p = "initial_songs.txt" THEN f ELSE Absent]
                : f \in songs }
    /\ users_file \in accounts
    /\ users = load_users(users_file)
    /\ current_user = None
    /\ current_playlist = <<>>
    /\ listbox = <<>>
    /\ entry_song = <<>>
    /\ lbl_most = most_label(initSystem)
    /\ lib = startup_library(fs)
    /\ adds = [reloaded |-> fs["initial_songs.txt"].exists, names |-> {}]
    /\ dialog = NoDialog
    /\ handler = "startup"
    /\ calls = <<>>
    /\ path = ""

----------------------------------------------------------------------------
(* Handlers *)

\* the user edits the text of entry_song
edit_entry ==
    /\ \E t \in EntryTexts : t /= entry_song /\ entry_song' = t
    /\ handler' = "edit_entry"
    /\ dialog' = NoDialog
    /\ calls' = <<>>
    /\ path' = ""
    /\ UNCHANGED <<lib, fs, users, users_file, current_user, current_playlist,
                   listbox, lbl_most, adds>>

do_signup ==
    /\ \E uname \in AskUser, pwd \in SignupPwd :
        IF Falsy(uname) \/ Falsy(pwd)
            THEN /\ dialog' = NoDialog
                 /\ UNCHANGED <<users, users_file>>
        ELSE IF users[uname].exists
            THEN /\ dialog' = showerror("Error", "Username already exists.")
                 /\ UNCHANGED <<users, users_file>>
        ELSE /\ users' = [users EXCEPT ![uname] = UserRec(hash_pass(pwd), <<>>)]
             /\ users_file' = save_users(users')
             /\ dialog' = showinfo("Signup", "Signup successful")
    /\ handler' = "do_signup"
    /\ calls' = <<>>
    /\ path' = ""
    /\ UNCHANGED <<lib, fs, current_user, current_playlist, listbox,
                   entry_song, lbl_most, adds>>

do_login ==
    /\ \E uname \in AskUser, pwd \in AskPwd :
        IF Falsy(uname) \/ Falsy(pwd)
            THEN /\ dialog' = NoDialog
                 /\ UNCHANGED <<current_user, current_playlist, listbox>>
        ELSE IF ~users[uname].exists \/ users[uname].pwd_hash /= hash_pass(pwd)
            THEN /\ dialog' = showerror("Error", "Invalid credentials.")
                 /\ UNCHANGED <<current_user, current_playlist, listbox>>
        ELSE /\ current_user' = uname
             /\ current_playlist' = get_playlist(users[uname])
             /\ listbox' = refresh_playlist(current_playlist')
             /\ dialog' = showinfo("Login", "Welcome")
    /\ handler' = "do_login"
    /\ calls' = <<>>
    /\ path' = ""
    /\ UNCHANGED <<lib, fs, users, users_file, entry_song, lbl_most, adds>>

add_song_ui ==
    LET s == strip(entry_song) IN
    /\ handler' = "add_song_ui"
    /\ path' = ""
    /\ IF s = <<>>
        THEN /\ dialog' = showerror("Error", "Enter a song name")
             /\ calls' = <<>>
             /\ UNCHANGED <<lib, adds, current_playlist, users, users_file, listbox>>
        ELSE /\ current_user /= None => Len(current_playlist) < MaxPlaylist
             /\ lib' = c_add_song(lib, s)
             /\ calls' = <<Call("add_song", s)>>
             /\ adds' = [adds EXCEPT !.names = IF adds.reloaded THEN @ ELSE @ \cup {s}]
             /\ IF current_user /= None
                 THEN /\ current_playlist' = Append(current_playlist, s)
                      /\ users' = [users EXCEPT ![current_user] =
                                      UserRec(@.pwd_hash, current_playlist')]
                      /\ users_file' = save_users(users')
                 ELSE UNCHANGED <<current_playlist, users, users_file>>
             /\ listbox' = refresh_playlist(current_playlist')
             /\ dialog' = showinfo("Added", "Added to library.")
    /\ UNCHANGED <<fs, current_user, entry_song, lbl_most>>

search_song_ui ==
    LET s == strip(entry_song) IN
    /\ handler' = "search_song_ui"
    /\ path' = ""
    /\ IF s = <<>>
        THEN /\ dialog' = showerror("Error", "Enter a song name")
             /\ calls' = <<>>
        ELSE /\ calls' = <<Call("search_song", s)>>
             /\ dialog' = IF c_search_song(lib, s)
                            THEN showinfo("Found", "exists in library.")
                            ELSE showinfo("Not found", "not found in library.")
    /\ UNCHANGED <<lib, fs, users, users_file, current_user, current_playlist,
                   listbox, entry_song, lbl_most, adds>>

\* (the browser that play_song_ui and google_search_ui open is not modelled)
play_song_ui ==
    LET s == strip(entry_song) IN
    /\ handler' = "play_song_ui"
    /\ path' = ""
    /\ IF s = <<>>
        THEN /\ dialog' = showerror("Error", "Enter a song name")
             /\ calls' = <<>>
             /\ UNCHANGED <<lib, lbl_most>>
        ELSE /\ \A i \in 1..Len(lib) : c_play_song(lib, s)[i].play_count <= MaxPlays
             /\ lib' = c_play_song(lib, s)
             /\ lbl_most' = most_label(lib')
             /\ calls' = <<Call("play_song", s), Call("most_played", <<>>)>>
             /\ dialog' = showinfo("Playing", "Opened YouTube search")
    /\ UNCHANGED <<fs, users, users_file, current_user, current_playlist,
                   listbox, entry_song, adds>>

google_search_ui ==
    LET s == strip(entry_song) IN
    /\ handler' = "google_search_ui"
    /\ path' = ""
    /\ calls' = <<>>
    /\ dialog' = IF s = <<>>
                   THEN showerror("Error", "Enter a song name")
                   ELSE NoDialog
    /\ UNCHANGED <<lib, fs, users, users_file, current_user, current_playlist,
                   listbox, entry_song, lbl_most, adds>>

\* listbox.curselection(): nothing selected (0), or one row of the listbox
Selections == 0..Len(listbox)

load_selected_to_entry ==
    /\ \E sel \in Selections :
        IF sel = 0
            THEN UNCHANGED entry_song
            ELSE entry_song' = current_playlist[sel]
    /\ handler' = "load_selected_to_entry"
    /\ dialog' = NoDialog
    /\ calls' = <<>>
    /\ path' = ""
    /\ UNCHANGED <<lib, fs, users, users_file, current_user, current_playlist,
                   listbox, lbl_most, adds>>

\* list.pop(idx)
pop(pl, idx) == SubSeq(pl, 1, idx - 1) \o SubSeq(pl, idx + 1, Len(pl))

remove_selected ==
    /\ \E sel \in Selections :
        IF current_user = None
            THEN /\ dialog' = showerror("Error", "Login first.")
                 /\ UNCHANGED <<current_playlist, users, users_file, listbox>>
        ELSE IF sel = 0
            THEN /\ dialog' = showerror("Error", "Select a song to remove.")
                 /\ UNCHANGED <<current_playlist, users, users_file, listbox>>
        ELSE /\ current_playlist' = pop(current_playlist, sel)
             /\ users' = [users EXCEPT ![current_user] =
                             UserRec(@.pwd_hash, current_playlist')]
             /\ users_file' = save_users(users')
             /\ listbox' = refresh_playlist(current_playlist')
             /\ dialog' = showinfo("Removed", "Removed from playlist.")
    /\ handler' = "remove_selected"
    /\ calls' = <<>>
    /\ path' = ""
    /\ UNCHANGED <<lib, fs, current_user, entry_song, lbl_most, adds>>

save_library_file ==
    /\ \E p \in DialogPaths :
        /\ path' = p
        /\ IF p = ""
            THEN /\ dialog' = NoDialog
                 /\ calls' = <<>>
                 /\ UNCHANGED fs
            ELSE /\ fs' = c_save_songs(lib, fs, p)
                 /\ calls' = <<Call("save_songs", <<p>>)>>
                 /\ dialog' = showinfo("Saved", "Library saved")
    /\ handler' = "save_library_file"
    /\ UNCHANGED <<lib, users, users_file, current_user, current_playlist,
                   listbox, entry_song, lbl_most, adds>>

load_library_file ==
    /\ \E p \in DialogPaths :
        /\ path' = p
        /\ IF p = ""
            THEN /\ dialog' = NoDialog
                 /\ calls' = <<>>
                 /\ UNCHANGED <<lib, adds>>
            ELSE /\ lib' = c_load_songs(lib, fs, p)
                 /\ calls' = <<Call("load_songs", <<p>>)>>
                 /\ adds' = [reloaded |-> TRUE, names |-> {}]
                 /\ dialog' = showinfo("Loaded", "Library loaded")
    /\ handler' = "load_library_file"
    /\ UNCHANGED <<fs, users, users_file, current_user, current_playlist,
                   listbox, entry_song, lbl_most>>

----------------------------------------------------------------------------
(* Specifications *)

\* the song library: the handlers that reach the engine, nobody logging in
Next ==
    \/ edit_entry
    \/ add_song_ui
    \/ search_song_ui
    \/ play_song_ui
    \/ google_search_ui
    \/ save_library_file
    \/ load_library_file

Init == Startup(InitialSongs, InitialUsers)

Spec == Init /\ [][Next]_vars

\* accounts and playlists: do_signup, do_login, add_song_ui and
\* remove_selected in any order, started without an initial_songs.txt
NextUsers ==
    \/ edit_entry
    \/ do_signup
    \/ do_login
    \/ add_song_ui
    \/ remove_selected
    \/ load_selected_to_entry

InitUsers == Startup({Absent}, InitialUsers)

SpecUsers == InitUsers /\ [][NextUsers]_vars

\* the three handlers that pass the entry text to the engine, with a user
\* who can log in
NextEntry ==
    \/ edit_entry
    \/ do_login
    \/ add_song_ui
    \/ search_song_ui
    \/ play_song_ui

InitEntry == Startup(InitialSongs, {OneUser})

SpecEntry == InitEntry /\ [][NextEntry]_vars

----------------------------------------------------------------------------
(* Properties *)

SongHandlers == { "add_song_ui", "search_song_ui", "play_song_ui" }

\* the position of the entry named b in L, as a set (empty: no such entry)
Entries(L, b) == { i \in 1..Len(L) : L[i].name = b }

\* s is empty once surrounding whitespace is removed
IsBlank(s) == \A i \in 1..Len(s) : s[i] \in { " ", "\t", "\n", "\r" }

\* s has no surrounding whitespace
IsTrimmed(s) ==
    s = <<>> \/ (s[1] \notin { " ", "\t", "\n", "\r" }
                 /\ s[Len(s)] \notin { " ", "\t", "\n", "\r" })

\* the text the last add_song / search_song / play_song call was given
LastArg == calls[1].arg

\* C1: as long as the library was built by add calls alone (no load since
\* initSystem), search(name) is true exactly for the names passed to add,
\* however often they were added; a name differing in case, a longer name
\* and an untrimmed one are not found.
C1_SearchIffAdded ==
    ~adds.reloaded =>
        \A n \in ProbeNames \cup adds.names :
            c_search_song(lib, n) <=> n \in adds.names

\* C1 witness: no load so far, both names added, and the last add repeated a
\* name whose entry had already been played.
C1_Witness ==
    /\ ~adds.reloaded
    /\ adds.names = { <<"a">>, <<"e'">> }
    /\ handler = "add_song_ui"
    /\ calls /= <<>>
    /\ \E i \in Entries(lib, Utf8Encode(LastArg)) : lib[i].play_count > 0

\* C2: add_song_ui with a name that already has an entry leaves the library
\* as it was: same entries, same order, same play counts.
C2_AddIdempotent ==
    [][ ( /\ handler' = "add_song_ui"
          /\ ~IsBlank(entry_song)
          /\ Entries(lib, Utf8Encode(strip(entry_song))) /= {} )
        => lib' = lib ]_vars

\* C2 witness: the last handler added a name whose entry has a play count
\* above 0 (so it existed before), in a library of two entries.
C2_Witness ==
    /\ handler = "add_song_ui"
    /\ calls /= <<>>
    /\ Len(lib) = 2
    /\ \E i \in Entries(lib, Utf8Encode(LastArg)) : lib[i].play_count = MaxPlays

\* C3: play_song_ui with a name that has no entry leaves the library as it
\* was: no entry added, order and play counts unchanged.
C3_PlayMissingNoOp ==
    [][ ( /\ handler' = "play_song_ui"
          /\ ~IsBlank(entry_song)
          /\ Entries(lib, Utf8Encode(strip(entry_song))) = {} )
        => lib' = lib ]_vars

\* C3 witness: the last handler played a name that is not in the non-empty
\* library, one of whose entries has been played before.
C3_Witness ==
    /\ handler = "play_song_ui"
    /\ calls /= <<>>
    /\ Entries(lib, Utf8Encode(LastArg)) = {}
    /\ \E i \in 1..Len(lib) : lib[i].play_count > 0

\* C4: after add and play calls alone (no load since initSystem),
\* c_most_played() is "" for the empty library and otherwise the name of the
\* entry with the greatest play_count, the earliest inserted among equals.
C4_MostPlayed ==
    ~adds.reloaded =>
        IF lib = <<>>
            THEN c_most_played(lib) = <<>>
            ELSE \E i \in 1..Len(lib) :
                    /\ Utf8Encode(c_most_played(lib)) = lib[i].name
                    /\ \A j \in 1..Len(lib) : lib[j].play_count <= lib[i].play_count
                    /\ \A j \in 1..(i - 1) : lib[j].play_count < lib[i].play_count

\* C4 witness: two entries tied at a play count above 0, the last handler a
\* play, and the label showing the first of them.
C4_Witness ==
    /\ ~adds.reloaded
    /\ handler = "play_song_ui"
    /\ Len(lib) = 2
    /\ lib[1].play_count = lib[2].play_count
    /\ lib[1].play_count > 0
    /\ Utf8Encode(lbl_most) = lib[1].name

\* C5: right after save_library_file wrote the library to a path, loading
\* that path into a freshly initialised engine gives the same names in the
\* same order, every play_count 0 (counts are not persisted).
C5_RoundTrip ==
    (handler = "save_library_file" /\ path /= "") =>
        LET loaded == c_load_songs(initSystem, fs, path)
        IN  /\ Len(loaded) = Len(lib)
            /\ \A i \in 1..Len(lib) :
                /\ loaded[i].name = lib[i].name
                /\ loaded[i].play_count = 0

\* C5 witness: a library of two entries, the second one played, has just
\* been saved.
C5_Witness ==
    /\ handler = "save_library_file"
    /\ path /= ""
    /\ Len(lib) = 2
    /\ lib[2].play_count > 0

\* the lines of the file at p that hold a name
NameLines(p) ==
    LET lines == SplitLines(fs[p].data, <<>>)
    IN  { lines[k] : k \in { k \in 1..Len(lines) : lines[k] /= <<>> } }

\* the first line of the file at p that holds name b
FirstLine(p, b) ==
    LET lines == SplitLines(fs[p].data, <<>>)
    IN  CHOOSE k \in 1..Len(lines) :
            lines[k] = b /\ \A m \in 1..(k - 1) : lines[m] /= b

\* C6: right after load_library_file read an existing file, the library
\* holds exactly the names on the file's lines, in file order, each once and
\* with play_count 0; no other entry remains, and an empty file gives an
\* empty library.
C6_LoadReplaces ==
    (handler = "load_library_file" /\ path /= "" /\ fs[path].exists) =>
        /\ { lib[i].name : i \in 1..Len(lib) } = NameLines(path)
        /\ \A i, j \in 1..Len(lib) :
            i < j => FirstLine(path, lib[i].name) < FirstLine(path, lib[j].name)
        /\ \A i \in 1..Len(lib) : lib[i].play_count = 0
        /\ fs[path].data = <<>> => lib = <<>>

\* C6 witness: a load of an existing file after which the song the label
\* still names as most played has no entry any more.
C6_Witness ==
    /\ handler = "load_library_file"
    /\ path /= ""
    /\ fs[path].exists
    /\ lbl_most /= <<"-">>
    /\ Entries(lib, Utf8Encode(lbl_most)) = {}

\* C7: load_library_file on a path with no file gets NotFoundError back
\* from c_load_songs and leaves the library as it was.
C7_LoadMissingFails ==
    [][ ( /\ handler' = "load_library_file"
          /\ path' /= ""
          /\ ~fs[path'].exists )
        => ( /\ c_load_songs_result(load_songs_status(fs, path')) = "NotFoundError"
             /\ lib' = lib ) ]_vars

\* C8: no two entries of the library have the same name.
C8_UniqueNames ==
    \A i, j \in 1..Len(lib) : i /= j => lib[i].name /= lib[j].name

\* C8 witness: the library after loading a file whose two lines hold the
\* same name.
C8_Witness ==
    /\ handler = "load_library_file"
    /\ path /= ""
    /\ fs[path] = File(<<97, 10, 97, 10>>)
    /\ Len(lib) = 1

\* C9: add_song_ui, search_song_ui and play_song_ui on an entry text that
\* is blank make no engine call and change neither the library, the current
\* playlist, the users store, users_db.json nor the Most Played label; and
\* every name these handlers pass to the engine is non-empty and trimmed.
C9_BlankEntryRejected ==
    /\ [][ (handler' \in SongHandlers /\ IsBlank(entry_song))
           => ( /\ calls' = <<>>
                /\ UNCHANGED <<lib, current_playlist, users, users_file, lbl_most>> )
       ]_vars
    /\ [](\A k \in 1..Len(calls) :
            calls[k].fn \in { "add_song", "search_song", "play_song" } =>
                calls[k].arg /= <<>> /\ IsTrimmed(calls[k].arg))

\* C9 witness: a logged-in user with a playlist and a non-empty library has
\* just pressed Add with only a space in the entry, and got the error.
C9_Witness ==
    /\ handler = "add_song_ui"
    /\ entry_song = <<" ">>
    /\ dialog = showerror("Error", "Enter a song name")
    /\ current_user /= None
    /\ current_playlist /= <<>>
    /\ lib /= <<>>

\* the "playlist" value of a users record, [] when the key is missing
StoredPlaylist(rec) == IF rec.has_playlist THEN rec.playlist ELSE <<>>

\* C10: while a user is logged in, the playlist stored for that user in
\* users, the one in users_db.json and the rows of the listbox all equal
\* current_playlist (same names, same order, duplicates included).
C10_PlaylistInSync ==
    current_user /= None =>
        /\ users[current_user].exists
        /\ StoredPlaylist(users[current_user]) = current_playlist
        /\ users_file.exists
        /\ StoredPlaylist(users_file.data[current_user]) = current_playlist
        /\ Len(listbox) = Len(current_playlist)
        /\ \A i \in 1..Len(listbox) : listbox[i] = <<i, current_playlist[i]>>

\* C10 witness: the logged-in user's playlist holds the same name twice
\* while the library has one entry, and both accounts exist.
C10_Witness ==
    /\ current_user /= None
    /\ handler = "add_song_ui"
    /\ Len(current_playlist) = 2
    /\ current_playlist[1] = current_playlist[2]
    /\ Len(lib) = 1
    /\ users["u"].exists /\ users["v"].exists

====
